---- MODULE Spec2Model ----
(***************************************************************************)
(* A model of notmuch_abook.py: the SQLite address store (SQLiteStorage),  *)
(* the ignore filter (Ignorer), the header extractor (MailParser), the     *)
(* line codec (format_address / decode_line) and the command actions.      *)
(*                                                                         *)
(* Text is modelled as a sequence of one-character strings.  A row of the  *)
(* AddressBook table is a pair <<Name, Address>>; the table is a bag of    *)
(* rows, because the fts4 table itself has no uniqueness constraint: the   *)
(* only guard is the INSTEAD OF INSERT trigger of AddressBookView.         *)
(***************************************************************************)
EXTENDS Naturals, Sequences, FiniteSets, Bags, TLC

VARIABLES
    exists,      \* os.path.exists(self.__path): the database file is there
    rows,        \* the rows of table AddressBook, a bag of <<Name, Address>>
    ignorefile,  \* the lines of the configured ignore file, or None
    last,        \* the last operation: its arguments, result and prior store
    addresses,   \* MailParser.addresses of the extractor instance under test
    total,       \* every pair that instance has yielded, a bag
    seen,        \* the addresses it was given, each with its first name
    repeated,    \* the addresses it was given more than once
    rec,         \* the record handed to format_address
    fmt,         \* the format handed to format_address and decode_line
    line,        \* what format_address returned for it
    decoded      \* what decode_line returned for that text

vars == <<exists, rows, ignorefile, last, addresses, total, seen, repeated,
          rec, fmt, line, decoded>>

storeVars == <<exists, rows, ignorefile, last>>
parserVars == <<addresses, total, seen, repeated>>
codecVars == <<rec, fmt, line, decoded>>

----------------------------------------------------------------------------
(* Bounds of the model. *)

\* The largest number of rows the table is allowed to reach.
MaxRows == 3
\* The largest number of lines, rows or messages in one input.
MaxInput == 2
\* The longest name or address handed to the codec.
MaxStr == 2

----------------------------------------------------------------------------
(* Text. *)

\* An ignore file: not configured (ignorefile is None), or its lines.
NoIgnoreFile == [configured |-> FALSE, lines |-> <<>>]
IgnoreFile(lines) == [configured |-> TRUE, lines |-> lines]

TAB == "\t"
SP == " "
DQ == "\""
SQ == "'"
BS == "\\"

\* The strings over alphabet A of length lo..hi.
Strings(A, lo, hi) == UNION {[1..n -> A] : n \in lo..hi}

\* The sequences over S of length at most n.
SeqUpTo(S, n) == UNION {[1..k -> S] : k \in 0..n}

\* needle in hay (Python's substring test).
Contains(hay, needle) ==
    \E i \in 1..(Len(hay) + 1) :
        /\ i + Len(needle) - 1 <= Len(hay)
        /\ SubSeq(hay, i, i + Len(needle) - 1) = needle

\* str.lower() on the letters the inputs use.
LowerChar(c) ==
    CASE c = "A" -> "a"
      [] c = "B" -> "b"
      [] c = "S" -> "s"
      [] c = "X" -> "x"
      [] OTHER -> c

Lower(s) == [i \in 1..Len(s) |-> LowerChar(s[i])]

\* str.strip(chars): drop the leading and the trailing characters in chars.
Strip(s, chars) ==
    LET keep == {i \in 1..Len(s) : s[i] \notin chars}
    IN  IF keep = {} THEN <<>>
        ELSE LET lo == CHOOSE i \in keep : \A j \in keep : i <= j
                 hi == CHOOSE i \in keep : \A j \in keep : j <= i
             IN  SubSeq(s, lo, hi)

Whitespace == {SP, TAB}

\* str.split(sep) for a one-character separator: the pieces between seps.
RECURSIVE Split(_, _)
Split(s, sep) ==
    IF \A i \in 1..Len(s) : s[i] # sep THEN <<s>>
    ELSE LET k == CHOOSE i \in 1..Len(s) :
                      s[i] = sep /\ \A j \in 1..(i - 1) : s[j] # sep
         IN  <<SubSeq(s, 1, k - 1)>> \o Split(SubSeq(s, k + 1, Len(s)), sep)

StartsWith(s, c) == Len(s) > 0 /\ s[1] = c
EndsWith(s, c) == Len(s) > 0 /\ s[Len(s)] = c

----------------------------------------------------------------------------
(* Ignorer. *)

\* Ignorer.create_regexes: the rule lines of the ignore file, stripped;
\* blank lines and comments are skipped.
RuleLines(lines) ==
    {l \in {Strip(lines[i], Whitespace) : i \in 1..Len(lines)} :
        l # <<>> /\ ~StartsWith(l, "#")}

\* Ignorer.create_regexes: the literal substrings (the lines not in /.../).
ignore_substrings(lines) ==
    {l \in RuleLines(lines) : ~(StartsWith(l, "/") /\ EndsWith(l, "/"))}

\* Ignorer.create_regexes: the patterns of the /.../ lines, slashes stripped.
ignore_regexes(lines) ==
    {Strip(l, {"/"}) :
        l \in {m \in RuleLines(lines) : StartsWith(m, "/") /\ EndsWith(m, "/")}}

\* regex.search(address) for a pattern compiled with re.IGNORECASE.  The
\* ignore files of this model hold literal patterns only, for which the
\* search is a case-insensitive substring test.
RegexSearch(pattern, address) == Contains(Lower(address), Lower(pattern))

\* Ignorer.ignore_address
ignore_address(file, address) ==
    IF ~file.configured THEN FALSE
    ELSE IF \E s \in ignore_substrings(file.lines) : Contains(address, s)
         THEN TRUE
    ELSE \E r \in ignore_regexes(file.lines) : RegexSearch(r, address)

----------------------------------------------------------------------------
(* SQLiteStorage.  Every method is an operator from the store before the   *)
(* call, (e, t) = (the file exists, the table's rows), to the store after  *)
(* it and the method's outcome: ret is the value returned, or the name of  *)
(* the exception that left the method; n is the count init returns.        *)

Outcome(e, t, ret, n) == [exists |-> e, rows |-> t, ret |-> ret, n |-> n]

\* The addresses of the table's rows.
AddressesOf(t) == {r[2] : r \in BagToSet(t)}

\* The number of rows whose Address is a.
RowsWith(t, a) ==
    BagCardinality([r \in {q \in BagToSet(t) : q[2] = a} |-> t[r]])

\* INSERT INTO AddressBookView VALUES(?,?): trigger insert_into_ab raises
\* ABORT (sqlite3.IntegrityError) when a row has the new address, and
\* otherwise inserts into addressbook.
ViewInsert(t, elt) ==
    IF elt[2] \in AddressesOf(t)
    THEN [ok |-> FALSE, rows |-> t]
    ELSE [ok |-> TRUE, rows |-> t (+) SetToBag({elt})]

\* UPDATE AddressBook SET name = <name> [, address = <setAddr.value>]
\* WHERE address = <where>: every matching row is rewritten in place.
UpdateWhere(t, name, setAddr, where) ==
    LET F(r) == IF r[2] = where
                THEN <<name, IF setAddr.set THEN setAddr.value ELSE r[2]>>
                ELSE r
    IN  BagOfAll(F, t)

NoAddr == [set |-> FALSE, value |-> <<>>]

\* The create variant that overwrites an existing file.
create_overwriting(e, t) == Outcome(TRUE, EmptyBag, "None", 0)

\* SQLiteStorage.create
create(e, t) ==
    IF e THEN Outcome(e, t, "IOError", 0)
    ELSE Outcome(TRUE, EmptyBag, "None", 0)

\* SQLiteStorage.init, the loop over gen(): (t, n) after the elements.
RECURSIVE InitLoop(_, _, _)
InitLoop(t, n, elts) ==
    IF elts = <<>> THEN [rows |-> t, n |-> n]
    ELSE LET ins == ViewInsert(t, Head(elts))
         IN  InitLoop(ins.rows, IF ins.ok THEN n + 1 ELSE n, Tail(elts))

\* SQLiteStorage.init
init(e, t, elts) ==
    IF ~e THEN Outcome(e, t, "IOError", 0)
    ELSE LET done == InitLoop(t, 0, elts)
         IN  Outcome(e, done.rows, "None", done.n)

\* The update variant whose plain insert replaces the name of a present
\* address instead of failing.
update_overwriting(e, t, file, addr, replace) ==
    IF ignore_address(file, addr[2]) THEN Outcome(e, t, "False", 0)
    ELSE IF ~e THEN Outcome(e, t, "IOError", 0)
    ELSE IF addr[2] \in AddressesOf(t)
    THEN Outcome(e, UpdateWhere(t, addr[1], NoAddr, addr[2]), "True", 0)
    ELSE Outcome(e, t (+) SetToBag({addr}), "True", 0)

\* The update variant whose UPDATE has no WHERE clause.
update_renaming_all(e, t, file, addr, replace) ==
    IF ignore_address(file, addr[2]) THEN Outcome(e, t, "False", 0)
    ELSE IF ~e THEN Outcome(e, t, "IOError", 0)
    ELSE IF replace
    THEN Outcome(e, BagOfAll(LAMBDA r : <<addr[1], r[2]>>, t), "True", 0)
    ELSE LET ins == ViewInsert(t, addr)
         IN  Outcome(e, ins.rows, IF ins.ok THEN "True" ELSE "False", 0)

\* SQLiteStorage.update.  With replace, `present` is the cursor execute
\* returns, which is true whatever the SELECT finds: the UPDATE always runs
\* and the INSERT of that branch never does.
update(e, t, file, addr, replace) ==
    IF ignore_address(file, addr[2]) THEN Outcome(e, t, "False", 0)
    ELSE IF ~e THEN Outcome(e, t, "IOError", 0)
    ELSE IF replace
    THEN LET present == TRUE
         IN  IF present
             THEN Outcome(e, UpdateWhere(t, addr[1], NoAddr, addr[2]),
                          "True", 0)
             ELSE LET ins == ViewInsert(t, addr)
                  IN  Outcome(e, ins.rows,
                              IF ins.ok THEN "True" ELSE "False", 0)
    ELSE LET ins == ViewInsert(t, addr)
         IN  Outcome(e, ins.rows, IF ins.ok THEN "True" ELSE "False", 0)

\* SQLiteStorage.delete_db
delete_db(e, t) == Outcome(FALSE, EmptyBag, "None", 0)

----------------------------------------------------------------------------
(* change_name builds its statement with the % operator, so the statement  *)
(* SQLite parses is a text of which name and address are parts.  The text  *)
(* is a sequence of pieces: the characters of name and address, and the    *)
(* fragments of SQL named below, each one piece.                           *)

SqlUpdateSetName == "UPDATE AddressBook SET name = "
SqlWhereAddress == " WHERE address = "
SqlCommaAddress == ", address = "

\* "UPDATE AddressBook SET name = '%s' WHERE address = '%s'" % (name, address)
ChangeNameSql(name, address) ==
    <<SqlUpdateSetName, SQ>> \o name \o <<SQ, SqlWhereAddress, SQ>>
        \o address \o <<SQ>>

\* The position of the quote that closes the string literal whose body
\* starts at i, or 0 when the literal is not closed; '' is a quote in it.
RECURSIVE SqlLiteralEnd(_, _)
SqlLiteralEnd(text, i) ==
    IF i > Len(text) THEN 0
    ELSE IF text[i] # SQ THEN SqlLiteralEnd(text, i + 1)
    ELSE IF i + 1 <= Len(text) /\ text[i + 1] = SQ
         THEN SqlLiteralEnd(text, i + 2)
    ELSE i

\* The value of the literal body text[i..j]: '' stands for one quote.
RECURSIVE SqlLiteralValue(_, _, _)
SqlLiteralValue(text, i, j) ==
    IF i > j THEN <<>>
    ELSE IF text[i] = SQ THEN <<SQ>> \o SqlLiteralValue(text, i + 2, j)
    ELSE <<text[i]>> \o SqlLiteralValue(text, i + 1, j)

\* A string literal at position i: its value and the position after it.
SqlLiteral(text, i) ==
    IF i > Len(text) \/ text[i] # SQ
    THEN [ok |-> FALSE, value |-> <<>>, next |-> i]
    ELSE LET j == SqlLiteralEnd(text, i + 1)
         IN  IF j = 0 THEN [ok |-> FALSE, value |-> <<>>, next |-> i]
             ELSE [ok |-> TRUE, value |-> SqlLiteralValue(text, i + 1, j - 1),
                   next |-> j + 1]

BadSql == [ok |-> FALSE, name |-> <<>>, setAddr |-> NoAddr, where |-> <<>>]

\* The WHERE clause and the end of the statement, from position i.
SqlWhere(text, i, name, setAddr) ==
    IF i > Len(text) \/ text[i] # SqlWhereAddress THEN BadSql
    ELSE LET w == SqlLiteral(text, i + 1)
         IN  IF w.ok /\ w.next = Len(text) + 1
             THEN [ok |-> TRUE, name |-> name, setAddr |-> setAddr,
                   where |-> w.value]
             ELSE BadSql

\* SQLite's reading of a statement of the pieces above:
\*   UPDATE AddressBook SET name = 'lit' [, address = 'lit']
\*   WHERE address = 'lit'
\* Anything else is a syntax error (sqlite3.OperationalError).  The texts
\* change_name is given here assign the address at most once.
SqlParseUpdate(text) ==
    IF Len(text) = 0 \/ text[1] # SqlUpdateSetName THEN BadSql
    ELSE LET n == SqlLiteral(text, 2)
         IN  IF ~n.ok THEN BadSql
             ELSE IF n.next <= Len(text) /\ text[n.next] = SqlCommaAddress
             THEN LET a == SqlLiteral(text, n.next + 1)
                  IN  IF ~a.ok THEN BadSql
                      ELSE SqlWhere(text, a.next, n.value,
                                    [set |-> TRUE, value |-> a.value])
             ELSE SqlWhere(text, n.next, n.value, NoAddr)

\* SQLiteStorage.change_name
change_name(e, t, address, name) ==
    IF ~e THEN Outcome(e, t, "IOError", 0)
    ELSE LET stmt == SqlParseUpdate(ChangeNameSql(name, address))
         IN  IF ~stmt.ok THEN Outcome(e, t, "OperationalError", 0)
             ELSE Outcome(e, UpdateWhere(t, stmt.name, stmt.setAddr,
                                         stmt.where), "True", 0)

----------------------------------------------------------------------------
(* MailParser.  A message is its four address headers, each the list of    *)
(* (realname, email address) pairs email.utils.getaddresses reads from the *)
(* header's value; an absent header is the empty list.                     *)

Msg(to, from, cc, bcc) == [to |-> to, from |-> from, cc |-> cc, bcc |-> bcc]

\* The headers parse_mail collects, in its order, through getaddresses.
getaddresses(m) == m.to \o m.from \o m.cc \o m.bcc

\* name = addr[0].strip('; ')
NormName(raw) == Strip(raw, {";", SP})

\* address = addr[1].lower().strip(';\'" ')
NormAddress(raw) == Strip(Lower(raw), {";", SQ, DQ, SP})

\* The loop of parse_mail over the pairs: the dictionary and the pairs
\* yielded so far, after the pairs left.
RECURSIVE ParseLoop(_, _, _)
ParseLoop(dict, out, addrs) ==
    IF addrs = <<>> THEN [addresses |-> dict, yields |-> out]
    ELSE LET name == NormName(Head(addrs)[1])
             address == NormAddress(Head(addrs)[2])
         IN  IF address # <<>> /\ address \notin DOMAIN dict
             THEN ParseLoop((address :> name) @@ dict,
                            Append(out, <<name, address>>), Tail(addrs))
             ELSE ParseLoop(dict, out, Tail(addrs))

\* The parse_mail variant that yields every non-empty address it reads.
parse_mail_no_dedup(dict, m) ==
    LET ys == SelectSeq([i \in 1..Len(getaddresses(m)) |->
                            <<NormName(getaddresses(m)[i][1]),
                              NormAddress(getaddresses(m)[i][2])>>],
                        LAMBDA y : y[2] # <<>>)
    IN  [addresses |-> ParseLoop(dict, <<>>, getaddresses(m)).addresses,
         yields |-> ys]

\* MailParser.parse_mail on an instance whose dictionary is dict, run to
\* the end of the generator.
parse_mail(dict, m) == ParseLoop(dict, <<>>, getaddresses(m))

\* NotmuchAddressGetter.generate: one MailParser for all the messages.
RECURSIVE generate(_, _)
generate(dict, msgs) ==
    IF msgs = <<>> THEN <<>>
    ELSE LET p == parse_mail(dict, Head(msgs))
         IN  p.yields \o generate(p.addresses, Tail(msgs))

----------------------------------------------------------------------------
(* email.utils.formataddr and email.utils.parseaddr, which format_address  *)
(* and decode_line call for the email format, as Python 2.7 defines them   *)
(* (email/utils.py, email/_parseaddr.py), on texts without comments,       *)
(* groups and domain literals: the texts here hold none of ( ) : [ ].      *)
(* A position past the end of the field is Len(field) + 1.                 *)

\* specialsre of email.utils: a name holding one of these is quoted.
Specials == {"(", ")", "<", ">", "@", ",", ":", ";", ".", DQ, "[", "]", BS}
\* escapesre of email.utils: these are escaped with a backslash.
Escapes == {"[", "]", BS, "(", ")", DQ}
\* AddrlistClass: LWS, CR, atomends and phraseends.
LWS == {SP, TAB}
CR == {"\r", "\n"}
AtomSpecials == {"(", ")", "<", ">", "@", ",", ":", ";", ".", DQ, "[", "]"}
AtomEnds == AtomSpecials \cup LWS \cup CR
PhraseEnds == AtomEnds \ {"."}

\* escapesre.sub(r'\\\g<0>', name)
RECURSIVE Escape(_)
Escape(s) ==
    IF s = <<>> THEN <<>>
    ELSE (IF Head(s) \in Escapes THEN <<BS, Head(s)>> ELSE <<Head(s)>>)
             \o Escape(Tail(s))

\* email.utils.formataddr((name, address))
formataddr(name, address) ==
    IF name # <<>>
    THEN LET quotes == IF \E i \in 1..Len(name) : name[i] \in Specials
                       THEN <<DQ>> ELSE <<>>
         IN  quotes \o Escape(name) \o quotes \o <<SP, "<">> \o address
                 \o <<">">>
    ELSE address

\* AddrlistClass.gotonext: the position after the white space at p.
RECURSIVE gotonext(_, _)
gotonext(f, p) ==
    IF p <= Len(f) /\ f[p] \in (LWS \cup CR) THEN gotonext(f, p + 1) ELSE p

\* AddrlistClass.getatom: the characters up to one of ends.
RECURSIVE getatom(_, _, _)
getatom(f, p, ends) ==
    IF p > Len(f) \/ f[p] \in ends THEN [v |-> <<>>, pos |-> p]
    ELSE LET r == getatom(f, p + 1, ends)
         IN  [v |-> <<f[p]>> \o r.v, pos |-> r.pos]

\* AddrlistClass.getdelimited('"', '"\r', False), after the opening quote:
\* q says that the character before was a backslash.
RECURSIVE Delimited(_, _, _)
Delimited(f, p, q) ==
    IF p > Len(f) THEN [v |-> <<>>, pos |-> p]
    ELSE IF q
    THEN LET r == Delimited(f, p + 1, FALSE)
         IN  [v |-> <<f[p]>> \o r.v, pos |-> r.pos]
    ELSE IF f[p] \in {DQ, "\r"} THEN [v |-> <<>>, pos |-> p + 1]
    ELSE IF f[p] = BS THEN Delimited(f, p + 1, TRUE)
    ELSE LET r == Delimited(f, p + 1, FALSE)
         IN  [v |-> <<f[p]>> \o r.v, pos |-> r.pos]

\* AddrlistClass.getquote
getquote(f, p) ==
    IF f[p] # DQ THEN [v |-> <<>>, pos |-> p] ELSE Delimited(f, p + 1, FALSE)

\* AddrlistClass.getphraselist: the words of the phrase at p.
RECURSIVE getphraselist(_, _)
getphraselist(f, p) ==
    IF p > Len(f) THEN [v |-> <<>>, pos |-> p]
    ELSE IF f[p] \in (LWS \cup CR) THEN getphraselist(f, p + 1)
    ELSE IF f[p] = DQ
    THEN LET w == getquote(f, p)
             r == getphraselist(f, w.pos)
         IN  [v |-> <<w.v>> \o r.v, pos |-> r.pos]
    ELSE IF f[p] \in PhraseEnds THEN [v |-> <<>>, pos |-> p]
    ELSE LET w == getatom(f, p, PhraseEnds)
             r == getphraselist(f, w.pos)
         IN  [v |-> <<w.v>> \o r.v, pos |-> r.pos]

\* SPACE.join(plist)
RECURSIVE JoinSpace(_)
JoinSpace(ws) ==
    IF ws = <<>> THEN <<>>
    ELSE IF Len(ws) = 1 THEN ws[1]
    ELSE ws[1] \o <<SP>> \o JoinSpace(Tail(ws))

\* AddrlistClass.getdomain: bad says that a second @ ended the parse.
RECURSIVE getdomain(_, _)
getdomain(f, p) ==
    IF p > Len(f) THEN [v |-> <<>>, pos |-> p, bad |-> FALSE]
    ELSE IF f[p] \in LWS THEN getdomain(f, p + 1)
    ELSE IF f[p] = "."
    THEN LET r == getdomain(f, p + 1)
         IN  [v |-> <<".">> \o r.v, pos |-> r.pos, bad |-> r.bad]
    ELSE IF f[p] = "@" THEN [v |-> <<>>, pos |-> p, bad |-> TRUE]
    ELSE IF f[p] \in AtomEnds THEN [v |-> <<>>, pos |-> p, bad |-> FALSE]
    ELSE LET w == getatom(f, p, AtomEnds)
             r == getdomain(f, w.pos)
         IN  [v |-> w.v \o r.v, pos |-> r.pos, bad |-> r.bad]

\* utils.quote: backslashes and double quotes escaped.
RECURSIVE quote(_)
quote(s) ==
    IF s = <<>> THEN <<>>
    ELSE (IF Head(s) \in {BS, DQ} THEN <<BS, Head(s)>> ELSE <<Head(s)>>)
             \o quote(Tail(s))

\* AddrlistClass.getaddrspec, the loop over the local part at p.
RECURSIVE LocalPart(_, _)
LocalPart(f, p) ==
    IF p > Len(f) THEN [v |-> <<>>, pos |-> p]
    ELSE IF f[p] = "."
    THEN LET r == LocalPart(f, gotonext(f, p + 1))
         IN  [v |-> <<".">> \o r.v, pos |-> r.pos]
    ELSE IF f[p] = DQ
    THEN LET w == getquote(f, p)
             r == LocalPart(f, gotonext(f, w.pos))
         IN  [v |-> <<DQ>> \o quote(w.v) \o <<DQ>> \o r.v, pos |-> r.pos]
    ELSE IF f[p] \in AtomEnds THEN [v |-> <<>>, pos |-> p]
    ELSE LET w == getatom(f, p, AtomEnds)
             r == LocalPart(f, gotonext(f, w.pos))
         IN  [v |-> w.v \o r.v, pos |-> r.pos]

\* AddrlistClass.getaddrspec
getaddrspec(f, p) ==
    LET l == LocalPart(f, gotonext(f, p))
    IN  IF l.pos > Len(f) \/ f[l.pos] # "@" THEN l
        ELSE LET d == getdomain(f, gotonext(f, l.pos + 1))
             IN  IF d.bad \/ d.v = <<>> THEN [v |-> <<>>, pos |-> d.pos]
                 ELSE [v |-> l.v \o <<"@">> \o d.v, pos |-> d.pos]

\* AddrlistClass.getrouteaddr, the loop after "<": er is expectroute.
RECURSIVE RouteLoop(_, _, _)
RouteLoop(f, p, er) ==
    IF p > Len(f) THEN <<>>
    ELSE IF er THEN RouteLoop(f, gotonext(f, getdomain(f, p).pos), FALSE)
    ELSE IF f[p] = ">" THEN <<>>
    ELSE IF f[p] = "@" THEN RouteLoop(f, gotonext(f, p + 1), TRUE)
    ELSE getaddrspec(f, p).v

\* AddrlistClass.getrouteaddr
getrouteaddr(f, p) ==
    IF f[p] # "<" THEN <<>> ELSE RouteLoop(f, gotonext(f, p + 1), FALSE)

\* AddrlistClass.getaddress: the addresses read at the start of the field,
\* none or one (realname, address) pair.
getaddress(f) ==
    LET oldpos == gotonext(f, 1)
        pl == getphraselist(f, oldpos)
        p == gotonext(f, pl.pos)
    IN  IF p > Len(f)
        THEN IF pl.v # <<>> THEN <<(<< <<>>, pl.v[1] >>)>> ELSE <<>>
        ELSE IF f[p] \in {".", "@"}
        THEN <<(<< <<>>, getaddrspec(f, oldpos).v >>)>>
        ELSE IF f[p] = "<"
        THEN <<(<< JoinSpace(pl.v), getrouteaddr(f, p) >>)>>
        ELSE IF pl.v # <<>> THEN <<(<< <<>>, pl.v[1] >>)>> ELSE <<>>

\* email.utils.parseaddr: the first address of the list, or ('', ''); an
\* address getaddress could not read is ('', '') in the list.
parseaddr(f) ==
    IF f = <<>> THEN << <<>>, <<>> >>
    ELSE IF getaddress(f) = <<>> THEN << <<>>, <<>> >>
    ELSE getaddress(f)[1]

----------------------------------------------------------------------------
(* The format codec. *)

\* The format_address variant that writes the abook line name first.
format_address_name_first(r, format) ==
    IF format = "abook"
    THEN [exc |-> "None", text |-> r[1] \o <<TAB>> \o r[2]]
    ELSE IF format = "email"
    THEN [exc |-> "None", text |-> formataddr(r[1], r[2])]
    ELSE [exc |-> "InvalidOptionError", text |-> <<>>]

\* format_address, for the record r = <<Name, Address>>
format_address(r, format) ==
    IF format = "abook"
    THEN [exc |-> "None", text |-> r[2] \o <<TAB>> \o r[1]]
    ELSE IF format = "email"
    THEN [exc |-> "None", text |-> formataddr(r[1], r[2])]
    ELSE [exc |-> "InvalidOptionError", text |-> <<>>]

\* decode_line: `address, name = line.split('\t')` raises ValueError when
\* the line has more than one TAB.
decode_line(l, format) ==
    IF format = "abook"
    THEN IF \E i \in 1..Len(l) : l[i] = TAB
         THEN IF Len(Split(l, TAB)) # 2
              THEN [exc |-> "ValueError", name |-> <<>>, address |-> <<>>]
              ELSE [exc |-> "None", name |-> Split(l, TAB)[2],
                    address |-> Split(l, TAB)[1]]
         ELSE [exc |-> "None", name |-> <<>>, address |-> l]
    ELSE IF format = "email"
    THEN [exc |-> "None", name |-> parseaddr(l)[1],
          address |-> parseaddr(l)[2]]
    ELSE [exc |-> "InvalidOptionError", name |-> <<>>, address |-> <<>>]

----------------------------------------------------------------------------
(* The command actions. *)

\* The loop of import_address_list over the decoded entries: each entry is
\* an outcome of decode_line (a csv row needs no decoding).
RECURSIVE ImportLoop(_, _, _, _, _)
ImportLoop(e, t, file, replace, entries) ==
    IF entries = <<>> THEN Outcome(e, t, "None", 0)
    ELSE LET d == Head(entries)
         IN  IF d.exc # "None" THEN Outcome(e, t, d.exc, 0)
             ELSE LET u == update(e, t, file, <<d.name, d.address>>, replace)
                  IN  IF u.ret \notin {"True", "False"} THEN u
                      ELSE ImportLoop(u.exists, u.rows, file, replace,
                                      Tail(entries))

\* What import_address_list hands to update for each line or row of infile.
Entries(input_format, infile) ==
    [i \in 1..Len(infile) |->
        IF input_format = "csv"
        THEN [exc |-> "None", name |-> infile[i][1], address |-> infile[i][2]]
        ELSE decode_line(Strip(infile[i], Whitespace \cup CR), input_format)]

\* The import that passes replace=replace_all to update.
import_address_list_replacing(e, t, file, replace_all, input_format, infile) ==
    LET d == IF replace_all THEN create(FALSE, EmptyBag)
             ELSE Outcome(e, t, "None", 0)
    IN  ImportLoop(d.exists, d.rows, file, replace_all,
                   Entries(input_format, infile))

\* The import that does not delete the database before a replace import.
import_address_list_keeping(e, t, file, replace_all, input_format, infile) ==
    LET d == IF replace_all /\ ~e THEN create(e, t)
             ELSE Outcome(e, t, "None", 0)
    IN  ImportLoop(d.exists, d.rows, file, ~replace_all,
                   Entries(input_format, infile))

\* import_address_list
import_address_list(e, t, file, replace_all, input_format, infile) ==
    LET d == IF replace_all
             THEN create(delete_db(e, t).exists, delete_db(e, t).rows)
             ELSE Outcome(e, t, "None", 0)
    IN  ImportLoop(d.exists, d.rows, file, ~replace_all,
                   Entries(input_format, infile))

\* create_act: create the database, then load it with what
\* NotmuchAddressGetter.generate yields for the messages of the mail index.
create_act(e, t, msgs) ==
    LET c == create(e, t)
    IN  IF c.ret # "None" THEN c
        ELSE init(c.exists, c.rows, generate(<<>>, msgs))

\* The loop of update_act over the pairs parse_mail yields.
RECURSIVE UpdateActLoop(_, _, _, _, _)
UpdateActLoop(e, t, file, n, addrs) ==
    IF addrs = <<>> THEN Outcome(e, t, "None", n)
    ELSE LET u == update(e, t, file, Head(addrs), FALSE)
         IN  IF u.ret \notin {"True", "False"} THEN Outcome(e, t, u.ret, n)
             ELSE UpdateActLoop(u.exists, u.rows, file,
                                IF u.ret = "True" THEN n + 1 ELSE n,
                                Tail(addrs))

\* update_act, for the message m read from standard input
update_act(e, t, file, m) ==
    UpdateActLoop(e, t, file, 0, parse_mail(<<>>, m).yields)

----------------------------------------------------------------------------
(* The inputs of the store's operations. *)

Names == {<<"n">>, <<"m">>}
Addrs == {<<"a">>, <<"b">>, <<"s">>, <<"X">>}
Pairs == Names \X Addrs

\* No ignore file; or one with a substring, a regex, a comment and blanks.
IgnoreFiles ==
    {NoIgnoreFile,
     IgnoreFile(<< <<"s">>, <<SP>>, <<"/", "x", "/">>, <<"#", "b">>, <<>> >>)}

\* The names changename is given: plain names, a name with a quote, and a
\* name that closes the literal and assigns the address.
ChangeNames ==
    Names \cup {<<"n", SQ>>, <<"n", SQ, SqlCommaAddress, SQ, "a">>}

\* The header values of the messages: absent, or one address.
RawPairs ==
    {<< <<"n">>, <<"A">> >>, << <<"m", ";">>, <<SP, "a", ";">> >>,
     << <<"n">>, <<"b">> >>, << <<"m">>, <<"S">> >>}
HeaderValues == {<<>>} \cup {<<p>> : p \in RawPairs}

\* The messages update reads: a To and a Cc header.
UpdateMsgs == {Msg(to, <<>>, cc, <<>>) : to \in HeaderValues, cc \in HeaderValues}
\* The messages of the mail index: a From header.
IndexMsgs == {Msg(<<>>, from, <<>>, <<>>) : from \in HeaderValues \ {<<>>}}

\* The pairs a generator hands to init.
InitPairs ==
    {<< <<"n">>, <<"a">> >>, << <<"m">>, <<"a">> >>, << <<"n">>, <<"b">> >>,
     << <<"m">>, <<"X">> >>}

\* The records whose lines an import file holds.
ImportPairs ==
    {<< <<"n">>, <<"a">> >>, << <<"m">>, <<"a">> >>, << <<"n">>, <<"s">> >>}
\* The lines of an import file: exported lines, and for abook a line of
\* three columns.
ImportLines(format) ==
    IF format = "csv" THEN ImportPairs
    ELSE {format_address(r, format).text : r \in ImportPairs}
             \cup (IF format = "abook"
                   THEN {<<"b", TAB, "n", TAB, "m">>} ELSE {})

VALID_FORMATS == {"abook", "csv", "email"}

----------------------------------------------------------------------------
(* The store as a state machine.  The program runs one command per process *)
(* and exits (run, and section 5 of the design: single-threaded, one verb  *)
(* per run); what outlives the process is the database file.  A step runs  *)
(* one method of SQLiteStorage or one command on the file as it is and     *)
(* records the run in `last`; Exit ends the process, which forgets the     *)
(* run.  A run that would leave more than MaxRows rows is outside the      *)
(* model.                                                                  *)

NoPair == << <<>>, <<>> >>

\* The record of a run: the operation, its arguments (the pair, the
\* replace flag, the format, the input), its outcome and the store before.
Last(op, addr, replace, format, input, out) ==
    [op |-> op, addr |-> addr, replace |-> replace, fmt |-> format,
     input |-> input, ret |-> out.ret, n |-> out.n,
     preExists |-> exists, pre |-> rows]

NoLast ==
    [op |-> "none", addr |-> NoPair, replace |-> FALSE, fmt |-> "",
     input |-> <<>>, ret |-> "None", n |-> 0, preExists |-> FALSE,
     pre |-> EmptyBag]

\* No run is in progress.
Idle == last.op = "none"

Fits(out) == BagCardinality(out.rows) <= MaxRows

Create ==
    /\ Idle
    /\ \E out \in {create(exists, rows)} :
           /\ exists' = out.exists
           /\ rows' = out.rows
           /\ last' = Last("create", NoPair, FALSE, "", <<>>, out)
           /\ UNCHANGED <<ignorefile, parserVars, codecVars>>

DeleteDb ==
    /\ Idle
    /\ \E out \in {delete_db(exists, rows)} :
           /\ exists' = out.exists
           /\ rows' = out.rows
           /\ last' = Last("delete_db", NoPair, FALSE, "", <<>>, out)
           /\ UNCHANGED <<ignorefile, parserVars, codecVars>>

InitBulk ==
    /\ Idle
    /\ \E elts \in SeqUpTo(InitPairs, MaxInput) :
           \E out \in {init(exists, rows, elts)} :
               /\ Fits(out)
               /\ exists' = out.exists
               /\ rows' = out.rows
               /\ last' = Last("init", NoPair, FALSE, "", elts, out)
               /\ UNCHANGED <<ignorefile, parserVars, codecVars>>

Update ==
    /\ Idle
    /\ \E addr \in Pairs, replace \in BOOLEAN :
           \E out \in {update(exists, rows, ignorefile, addr, replace)} :
               /\ Fits(out)
               /\ exists' = out.exists
               /\ rows' = out.rows
               /\ last' = Last("update", addr, replace, "", <<>>, out)
               /\ UNCHANGED <<ignorefile, parserVars, codecVars>>

ChangeName ==
    /\ Idle
    /\ \E address \in Addrs, name \in ChangeNames :
           \E out \in {change_name(exists, rows, address, name)} :
               /\ exists' = out.exists
               /\ rows' = out.rows
               /\ last' = Last("change_name", <<name, address>>, FALSE, "",
                               <<>>, out)
               /\ UNCHANGED <<ignorefile, parserVars, codecVars>>

CreateAct ==
    /\ Idle
    /\ \E msgs \in SeqUpTo(IndexMsgs, MaxInput) :
           \E out \in {create_act(exists, rows, msgs)} :
               /\ Fits(out)
               /\ exists' = out.exists
               /\ rows' = out.rows
               /\ last' = Last("create_act", NoPair, FALSE, "", msgs, out)
               /\ UNCHANGED <<ignorefile, parserVars, codecVars>>

UpdateAct ==
    /\ Idle
    /\ \E m \in UpdateMsgs :
           \E out \in {update_act(exists, rows, ignorefile, m)} :
               /\ Fits(out)
               /\ exists' = out.exists
               /\ rows' = out.rows
               /\ last' = Last("update_act", NoPair, FALSE, "", <<m>>, out)
               /\ UNCHANGED <<ignorefile, parserVars, codecVars>>

ImportAct ==
    /\ Idle
    /\ \E format \in VALID_FORMATS, replace_all \in BOOLEAN :
           \E infile \in SeqUpTo(ImportLines(format), MaxInput) :
               \E out \in {import_address_list(exists, rows, ignorefile,
                                              replace_all, format, infile)} :
                   /\ Fits(out)
                   /\ exists' = out.exists
                   /\ rows' = out.rows
                   /\ last' = Last("import", NoPair, replace_all, format,
                                   infile, out)
                   /\ UNCHANGED <<ignorefile, parserVars, codecVars>>

\* The process exits: sys.exit(run()).
Exit ==
    /\ ~Idle
    /\ last' = NoLast
    /\ UNCHANGED <<exists, rows, ignorefile, parserVars, codecVars>>

\* MailParser.__init__: an empty dictionary; nothing given or yielded yet.
ParserIdle ==
    /\ addresses = <<>>
    /\ total = EmptyBag
    /\ seen = <<>>
    /\ repeated = {}

NoLine == [set |-> FALSE, exc |-> "None", text |-> <<>>]
NoDecoded == [set |-> FALSE, exc |-> "None", name |-> <<>>, address |-> <<>>]

CodecIdle ==
    /\ rec = NoPair
    /\ fmt = ""
    /\ line = NoLine
    /\ decoded = NoDecoded

\* No database file, as before the first create.
Init ==
    /\ exists = FALSE
    /\ rows = EmptyBag
    /\ ignorefile \in IgnoreFiles
    /\ last = NoLast
    /\ ParserIdle
    /\ CodecIdle

Next ==
    \/ Create
    \/ DeleteDb
    \/ InitBulk
    \/ Update
    \/ ChangeName
    \/ CreateAct
    \/ UpdateAct
    \/ ImportAct
    \/ Exit

Spec == Init /\ [][Next]_vars

----------------------------------------------------------------------------
(* One MailParser instance over the messages it is given.  total, seen and *)
(* repeated are history: seen and repeated are read off the headers, not   *)
(* off what parse_mail does with them.                                     *)

ParserRawPairs ==
    {<< <<"n">>, <<"A">> >>, << <<"m", ";">>, <<SP, "a", ";">> >>,
     << <<"n">>, <<"b">> >>, << <<"m">>, <<"B", SQ>> >>,
     << <<"n">>, <<"S">> >>, << <<"m">>, <<DQ, "s", DQ>> >>,
     << <<";">>, <<SP, ";">> >>}
ParserHeaderValues == {<<>>} \cup {<<p>> : p \in ParserRawPairs}
ParserMsgs ==
    {Msg(to, from, cc, bcc) :
        to \in ParserHeaderValues, from \in ParserHeaderValues,
        cc \in ParserHeaderValues, bcc \in ParserHeaderValues}

RECURSIVE SeqToBag(_)
SeqToBag(q) ==
    IF q = <<>> THEN EmptyBag ELSE SetToBag({Head(q)}) (+) SeqToBag(Tail(q))

\* The positions of the header pairs hs whose normalized address is a.
Occurrences(hs, a) == {i \in 1..Len(hs) : NormAddress(hs[i][2]) = a}

\* The non-empty normalized addresses of the header pairs hs.
Offered(hs) == {NormAddress(hs[i][2]) : i \in 1..Len(hs)} \ {<<>>}

\* The normalized name at the first occurrence of a in hs.
FirstName(hs, a) ==
    NormName(hs[CHOOSE i \in Occurrences(hs, a) :
                    \A j \in Occurrences(hs, a) : i <= j][1])

ParseMail ==
    \E m \in ParserMsgs :
        \E p \in {parse_mail(addresses, m)}, hs \in {getaddresses(m)} :
            /\ addresses' = p.addresses
            /\ total' = total (+) SeqToBag(p.yields)
            /\ seen' = [a \in DOMAIN seen \cup Offered(hs) |->
                           IF a \in DOMAIN seen THEN seen[a]
                           ELSE FirstName(hs, a)]
            /\ repeated' = repeated \cup
                   {a \in Offered(hs) :
                       a \in DOMAIN seen \/ Cardinality(Occurrences(hs, a)) > 1}
            /\ UNCHANGED <<storeVars, codecVars>>

\* MailParser(): a new instance.
NewParser ==
    /\ addresses # <<>>
    /\ addresses' = <<>>
    /\ total' = EmptyBag
    /\ seen' = <<>>
    /\ repeated' = {}
    /\ UNCHANGED <<storeVars, codecVars>>

StoreIdle ==
    /\ exists = FALSE
    /\ rows = EmptyBag
    /\ ignorefile = NoIgnoreFile
    /\ last = NoLast

InitParser == StoreIdle /\ ParserIdle /\ CodecIdle

NextParser == ParseMail \/ NewParser

SpecParser == InitParser /\ [][NextParser]_vars

----------------------------------------------------------------------------
(* The codec on one record: format_address, then decode_line on its text.  *)

CodecNameChars == {"a", SP, TAB, DQ}
CodecAddrChars == {"a", "@", ".", TAB}
CodecNames == Strings(CodecNameChars, 0, MaxStr)
CodecAddrs == Strings(CodecAddrChars, 1, MaxStr)

InitCodec ==
    /\ StoreIdle
    /\ ParserIdle
    /\ rec \in CodecNames \X CodecAddrs
    /\ fmt \in VALID_FORMATS
    /\ line = NoLine
    /\ decoded = NoDecoded

Encode ==
    /\ ~line.set
    /\ line' = [set |-> TRUE, exc |-> format_address(rec, fmt).exc,
                text |-> format_address(rec, fmt).text]
    /\ UNCHANGED <<storeVars, parserVars, rec, fmt, decoded>>

Decode ==
    /\ line.set
    /\ line.exc = "None"
    /\ ~decoded.set
    /\ decoded' = [set |-> TRUE, exc |-> decode_line(line.text, fmt).exc,
                   name |-> decode_line(line.text, fmt).name,
                   address |-> decode_line(line.text, fmt).address]
    /\ UNCHANGED <<storeVars, parserVars, rec, fmt, line>>

NextCodec == Encode \/ Decode

SpecCodec == InitCodec /\ [][NextCodec]_vars

----------------------------------------------------------------------------
(* Properties of the store. *)

\* The addresses of pre that the ignore rules match.
IgnoredIn(t) == {a \in AddressesOf(t) : ignore_address(ignorefile, a)}

\* The entries of the last import that decode_line could read.
ImportEntries ==
    LET es == Entries(last.fmt, last.input)
    IN  SelectSeq(es, LAMBDA d : d.exc = "None")

ImportAddresses == {ImportEntries[i].address : i \in 1..Len(ImportEntries)}

\* The positions of the import's entries whose address is a.
EntriesFor(a) ==
    {i \in 1..Len(ImportEntries) : ImportEntries[i].address = a}

\* C1: no two rows of the table have the same Address, whatever sequence
\* of init, update, change_name and import runs the store has seen.
C1_AddressUnique == \A a \in AddressesOf(rows) : RowsWith(rows, a) = 1

\* C2: an update_act, create_act or init run on a store that holds no
\* address the ignore rules match leaves none in it, so that none is ever
\* stored by these runs.
C2_IgnoredNeverStored ==
    (last.op \in {"update_act", "create_act", "init"} /\ IgnoredIn(last.pre) = {})
        => IgnoredIn(rows) = {}

\* C3: update with replace=True on an address that is not ignored and not
\* stored inserts the pair: exactly one row has the address afterwards, with
\* the given name; and a merge import that completes leaves every address
\* of its input that is not ignored in the store.
C3_ReplaceInsertsAbsent ==
    /\ (/\ last.op = "update"
        /\ last.replace
        /\ last.preExists
        /\ ~ignore_address(ignorefile, last.addr[2])
        /\ last.addr[2] \notin AddressesOf(last.pre))
           => /\ RowsWith(rows, last.addr[2]) = 1
              /\ BagIn(last.addr, rows)
    /\ (/\ last.op = "import"
        /\ ~last.replace
        /\ last.preExists
        /\ last.ret = "None")
           => \A a \in ImportAddresses :
                  ~ignore_address(ignorefile, a) => a \in AddressesOf(rows)

\* C4: update with replace=True on an address A that is not ignored and is
\* stored returns True, keeps the number of rows (and of rows with A), gives
\* every row with A the new name and leaves all other rows as they were.
C4_ReplaceRenamesPresent ==
    (/\ last.op = "update"
     /\ last.replace
     /\ ~ignore_address(ignorefile, last.addr[2])
     /\ last.addr[2] \in AddressesOf(last.pre))
        => /\ last.ret = "True"
           /\ BagCardinality(rows) = BagCardinality(last.pre)
           /\ RowsWith(rows, last.addr[2]) = RowsWith(last.pre, last.addr[2])
           /\ \A r \in BagToSet(rows) :
                  r[2] = last.addr[2] => r[1] = last.addr[1]
           /\ \A r \in BagToSet(rows) \cup BagToSet(last.pre) :
                  r[2] # last.addr[2]
                      => CopiesIn(r, rows) = CopiesIn(r, last.pre)

C4_Witness ==
    /\ last.op = "update"
    /\ last.replace
    /\ ignorefile.configured
    /\ last.ret = "True"
    /\ BagCardinality(last.pre) >= 2
    /\ \E r \in BagToSet(last.pre) :
           r[2] = last.addr[2] /\ r[1] # last.addr[1]
    /\ BagIn(last.addr, rows)

\* C5: update with replace=False on an address A that is not ignored: when
\* A is not stored it returns True and adds the one row (name, A); when A is
\* stored it returns False and leaves the store, the name of A included, as
\* it was.
C5_PlainInsertOnce ==
    (/\ last.op = "update"
     /\ ~last.replace
     /\ last.preExists
     /\ ~ignore_address(ignorefile, last.addr[2]))
        => IF last.addr[2] \notin AddressesOf(last.pre)
           THEN /\ last.ret = "True"
                /\ rows = last.pre (+) SetToBag({last.addr})
                /\ RowsWith(rows, last.addr[2]) = 1
           ELSE /\ last.ret = "False"
                /\ exists
                /\ rows = last.pre

C5_Witness ==
    /\ last.op = "update"
    /\ ~last.replace
    /\ last.ret = "False"
    /\ ~ignore_address(ignorefile, last.addr[2])
    /\ \E r \in BagToSet(rows) : r[2] = last.addr[2] /\ r[1] # last.addr[1]
    /\ rows = last.pre

\* C6: create, alone or as the first call of create_act, on a path that
\* exists fails with IOError and leaves the file and its rows as they were.
C6_CreateOnExistingFails ==
    (last.op \in {"create", "create_act"} /\ last.preExists)
        => /\ last.ret = "IOError"
           /\ exists
           /\ rows = last.pre

C6_Witness ==
    /\ last.op = "create"
    /\ last.preExists
    /\ last.ret = "IOError"
    /\ BagCardinality(rows) >= 2

\* C7: after a replace import that completes, every row's address is an
\* address of the input: the rows the store held before are gone unless the
\* input holds their address.
C7_ReplaceImportDiscards ==
    (last.op = "import" /\ last.replace /\ last.ret = "None")
        => AddressesOf(rows) \subseteq ImportAddresses

C7_Witness ==
    /\ last.op = "import"
    /\ last.replace
    /\ last.ret = "None"
    /\ \E r \in BagToSet(last.pre) : r[2] \notin ImportAddresses
    /\ rows # EmptyBag

\* C10, as claimed: after a replace import that completes, an address of
\* the input that is not ignored is stored with the name of the last entry
\* that has it.
C10_LaterEntryWins ==
    (last.op = "import" /\ last.replace /\ last.ret = "None")
        => \A a \in ImportAddresses :
               ~ignore_address(ignorefile, a)
                   => \A r \in BagToSet(rows) :
                          r[2] = a
                              => \E i \in EntriesFor(a) :
                                     /\ \A j \in EntriesFor(a) : j <= i
                                     /\ r[1] = ImportEntries[i].name

\* C10, amended: after a replace import that completes, an address of the
\* input that is not ignored is stored once, with the name of the first
\* entry that has it: the later entries with that address are not added.
C10_FirstEntryWins ==
    (last.op = "import" /\ last.replace /\ last.ret = "None")
        => \A a \in ImportAddresses :
               ~ignore_address(ignorefile, a)
                   => /\ RowsWith(rows, a) = 1
                      /\ \A r \in BagToSet(rows) :
                             r[2] = a
                                 => \E i \in EntriesFor(a) :
                                        /\ \A j \in EntriesFor(a) : i <= j
                                        /\ r[1] = ImportEntries[i].name

C10_Witness ==
    /\ last.op = "import"
    /\ last.replace
    /\ last.ret = "None"
    /\ \E a \in ImportAddresses :
           /\ ~ignore_address(ignorefile, a)
           /\ \E i, j \in EntriesFor(a) :
                  i < j /\ ImportEntries[i].name # ImportEntries[j].name
           /\ a \in AddressesOf(rows)

----------------------------------------------------------------------------
(* Properties of the extractor. *)

\* C8: over the parse_mail calls on one instance, every pair is yielded
\* once, no two yielded pairs share an address, no yielded address is
\* empty, the yielded addresses are the non-empty normalized addresses of
\* the headers given, and each comes with the name of its first occurrence.
C8_YieldedOnce ==
    /\ \A y \in BagToSet(total) : CopiesIn(y, total) = 1 /\ y[2] # <<>>
    /\ \A y, z \in BagToSet(total) : y[2] = z[2] => y = z
    /\ {y[2] : y \in BagToSet(total)} = DOMAIN seen
    /\ \A y \in BagToSet(total) : y[1] = seen[y[2]]

C8_Witness ==
    \E a \in repeated :
        /\ a \in DOMAIN seen
        /\ CopiesIn(<<seen[a], a>>, total) = 1
        /\ BagCardinality(total) >= 2

----------------------------------------------------------------------------
(* Properties of the codec. *)

NoTab(t) == \A i \in 1..Len(t) : t[i] # TAB

\* A name parseaddr gives back: it has no TAB, and it holds a character
\* that makes formataddr quote it, or its words are set apart by single
\* spaces.
EmailName(n) ==
    /\ NoTab(n)
    /\ \/ \E i \in 1..Len(n) : n[i] \in Specials
       \/ /\ n = <<>> \/ (n[1] # SP /\ n[Len(n)] # SP)
          /\ \A i \in 1..(Len(n) - 1) : ~(n[i] = SP /\ n[i + 1] = SP)

\* An address parseaddr gives back: atom characters and dots, with at most
\* one @, which has a character before it and one after it.
EmailAddress(a) ==
    /\ \A i \in 1..Len(a) : a[i] \notin (AtomEnds \ {".", "@"})
    /\ Cardinality({i \in 1..Len(a) : a[i] = "@"}) <= 1
    /\ a # <<>>
    /\ a[1] # "@"
    /\ a[Len(a)] # "@"

RoundTrip ==
    /\ decoded.exc = "None"
    /\ <<decoded.name, decoded.address>> = rec

====
